---- MODULE Spec2Model ----
(***************************************************************************)
(* State-machine model of the GraphQL command line client (src/index.js). *)
(*                                                                         *)
(* Strings are sequences of tokens: a token is one character of            *)
(* punctuation or white space (" ", "\n", "{", "}", "(", ")", ":", ",")    *)
(* or one whole word (a field name, a keyword).  Optional JavaScript       *)
(* values (null / undefined or a value) are sequences of length 0 or 1.    *)
(* Every prompt is a control location (pc); one action is what the program *)
(* does from the answer to one prompt up to the next prompt, with each     *)
(* transport request answered inside the action.                           *)
(***************************************************************************)
EXTENDS Naturals, Sequences, FiniteSets, TLC

VARIABLES
    pc,                         \* the prompt (or start / end point) the program is at
    error,                      \* what the top-level handler logged, "" while running
    schema,                     \* which schema the server has (fixed for a behaviour)
    config,                     \* let config (index.js:15)
    disk,                       \* the file at configPath: <<>> if absent, else <<config>>
    argv,                       \* process.argv from index 2 on (<<>> once main is past reading it)
    files,                      \* the .gql files of the working directory main can read, by
                                \* name (<<>> once main is past reading one)
    introspectionFieldsCache,   \* index.js:117
    introspectionMuationCache,  \* index.js:153: <<>> is null
    query,                      \* buildQuery: the operation tree
    pathsToFill,                \* buildQuery: the worklist
    path,                       \* buildQuery: the path popped last
    fields,                     \* buildQuery: the choices of the multi-select
    chosenFields,               \* buildQuery: the answer to the multi-select
    reprompted,                 \* buildQuery, this run: an empty answer was given
    queryString,                \* executeQuery / executeMutation: first parameter
    name,                       \* executeQuery / executeMutation: second parameter
    session,                    \* "query" in executeQuery, "mutation" in executeMutation, else ""
    op,                         \* the answer to the last menu
    menu,                       \* the choices of the prompt shown, <<>> if none
    tmpFile,                    \* the scratch file ./.query during an edit (<<>> outside of one,
                                \* where nothing reads it before it is written again)
    written,                    \* the .gql files the last step wrote, by name
    argPrompted,                \* buildMutation: the argument multi-select was shown
    template,                   \* buildMutation: the template handed to the snippet prompt
    sent,                       \* the transport requests of the last step, in order
    answers,                    \* what runQuery did with the answer to each of them
    fieldRequests,              \* per path key: introspection requests issued for it
    mutationRequests,           \* Mutation introspection requests issued so far
    returned,                   \* what the last introspectFields / introspectMutations call returned
    firstFields,                \* per path key: the fields its first successful resolution returned
    pushed,                     \* buildQuery, this run: times each path was pushed
    popped                      \* buildQuery, this run: times each path was popped

vars == <<pc, error, schema, config, disk, argv, files, introspectionFieldsCache,
          introspectionMuationCache, query, pathsToFill, path, fields,
          chosenFields, reprompted, queryString, name, session, op, menu, tmpFile,
          written, argPrompted, template, sent, answers,
          fieldRequests, mutationRequests, returned, firstFields, pushed, popped>>

-----------------------------------------------------------------------------
(* Bounds *)

\* at this depth and below the user chooses only fields that have no fields of
\* their own (the schema may be recursive)
MaxDepth == 2

-----------------------------------------------------------------------------
(* Values *)

Undefined == "undefined"

None == <<>>
Some(x) == <<x>>

RECURSIVE Repeat(_, _)
Repeat(tok, n) == IF n = 0 THEN <<>> ELSE <<tok>> \o Repeat(tok, n - 1)

SeqToSet(s) == {s[i] : i \in 1..Len(s)}

\* Array.prototype.join(): the elements separated by ","
RECURSIVE Join(_)
Join(p) ==
    IF Len(p) = 0 THEN <<>>
    ELSE IF Len(p) = 1 THEN <<p[1]>>
    ELSE <<p[1], ",">> \o Join(Tail(p))

\* Array.prototype.slice(0, -1)
SliceInit(p) == SubSeq(p, 1, Len(p) - 1)

\* the order of Array.prototype.sort() on the names the schemas use
NameOrder == <<"friend", "id", "me", "user">>
Rank(n) == CHOOSE i \in 1..Len(NameOrder) : NameOrder[i] = n

RECURSIVE SortInsert(_, _)
SortInsert(s, n) ==
    IF Len(s) = 0 THEN <<n>>
    ELSE IF Rank(n) < Rank(s[1]) THEN <<n>> \o s
    ELSE <<s[1]>> \o SortInsert(Tail(s), n)

RECURSIVE Sort(_)
Sort(s) == IF Len(s) = 0 THEN <<>> ELSE SortInsert(Sort(Tail(s)), s[1])

-----------------------------------------------------------------------------
(* The server: schemas and what the endpoint answers *)

Named(n) == [name |-> Some(n), ofType |-> None]
Wrap(t) == [name |-> None, ofType |-> Some(t)]
Field(n, t) == [name |-> n, type |-> t]
Mutation(n, args) == [name |-> n, type |-> Named("Boolean"),
                      args |-> [i \in 1..Len(args) |-> [name |-> args[i]]]]

\* root field user of type User, User with the single scalar field id
SchemaUser ==
    [objects |-> ("Query" :> <<Field("user", Named("User"))>>)
              @@ ("User" :> <<Field("id", Wrap(Named("ID")))>>),
     scalars |-> {"ID"},
     mutations |-> <<Mutation("login", <<"email">>)>>]

\* a recursive type behind list and non-null wrappers, fields not in sorted
\* order, mutations with no, two and three arguments
SchemaFriends ==
    [objects |-> ("Query" :> <<Field("me", Wrap(Named("User")))>>)
              @@ ("User" :> <<Field("id", Wrap(Named("ID"))),
                              Field("friend", Wrap(Wrap(Wrap(Named("User")))))>>),
     scalars |-> {"ID"},
     mutations |-> <<Mutation("post", <<"title", "text", "tag">>),
                     Mutation("like", <<"id", "by">>),
                     Mutation("ping", <<>>)>>]

Schemas == {"user", "friends"}

\* the schema the variable names
TheSchema == IF schema = "user" THEN SchemaUser ELSE SchemaFriends

\* the type selection of the fields introspection query is five levels deep
TypeDepth == 5

RECURSIVE Truncate(_, _)
Truncate(t, n) ==
    IF n = 1 \/ t.ofType = None THEN [name |-> t.name, ofType |-> None]
    ELSE [name |-> t.name, ofType |-> Some(Truncate(t.ofType[1], n - 1))]

FieldsQuery(type) == [kind |-> "fields", text |-> <<"__type", type>>]
MutationsQuery == [kind |-> "mutations", text |-> <<"__type", "Mutation">>]
Operation(text) == [kind |-> "operation", text |-> text]

\* data of a successful answer: data.__type, null for a type the schema lacks,
\* fields null for a type that is no object type
ServerData(q) ==
    IF q.kind = "fields" THEN
        LET type == q.text[2] IN
        IF type \in DOMAIN TheSchema.objects THEN
            Some([fields |-> Some([i \in 1..Len(TheSchema.objects[type]) |->
                     [name |-> TheSchema.objects[type][i].name,
                      type |-> Truncate(TheSchema.objects[type][i].type, TypeDepth)]])])
        ELSE IF type \in TheSchema.scalars THEN Some([fields |-> None])
        ELSE None
    ELSE IF q.kind = "mutations" THEN
        Some([fields |-> Some(TheSchema.mutations)])
    ELSE None

\* what the endpoint can answer to one request: a 2xx answer with data, with
\* errors, or with both, and a 500 answer whose body is plain text or carries
\* errors
Responses == {"data", "errors", "errorsAndData", "http500", "http500errors"}
Failures == Responses \ {"data"}

\* the answer of that kind: the status is 2xx or not, the body carries errors
\* or not, and data or not
Response(kind) ==
    [kind |-> kind,
     ok |-> kind \notin {"http500", "http500errors"},
     errors |-> kind \in {"errors", "errorsAndData", "http500errors"},
     data |-> kind \in {"data", "errorsAndData"}]

\* the answers to the requests of one step: the next `ok` requests get data,
\* the one after them gets `fail`
Nets(n) == {[ok |-> n, fail |-> "http500"]}
           \cup {[ok |-> k, fail |-> f] : k \in 0..(n - 1), f \in {"errorsAndData", "http500errors"}}

-----------------------------------------------------------------------------
(* Query runner *)

\* the transport part of a call context
Call(net) == [net |-> net, status |-> "ok", sent |-> <<>>, answers |-> <<>>, data |-> None]

\* a call context threaded through the calls of one step
Ctx(net) == [net |-> net, status |-> "ok", sent |-> <<>>, answers |-> <<>>, data |-> None,
             cache |-> introspectionFieldsCache, reqs |-> fieldRequests,
             first |-> firstFields, ret |-> <<>>,
             mcache |-> introspectionMuationCache, mreqs |-> mutationRequests,
             mret |-> None]

\* what runQuery did with one answer: whether it parsed the body as JSON, what
\* it threw ("" if nothing) and whether it returned result.data
Answer(resp, parsed, raised, returns) ==
    [response |-> resp.kind, parsed |-> parsed, raised |-> raised, returns |-> returns]

\* runQuery that parses the body and looks for errors before it looks at the status
runQueryErrorsFirst(c, q) ==
    LET resp == Response(IF c.net.ok > 0 THEN "data" ELSE c.net.fail)
        c1 == [c EXCEPT !.sent = Append(@, q),
                        !.net.ok = IF @ > 0 THEN @ - 1 ELSE 0]
    IN  IF resp.errors
        THEN [c1 EXCEPT !.status = "QueryError",
                        !.answers = Append(@, Answer(resp, TRUE, "QueryError", FALSE))]
        ELSE IF ~resp.ok
        THEN [c1 EXCEPT !.status = "HTTPError",
                        !.answers = Append(@, Answer(resp, TRUE, "HTTPError", FALSE))]
        ELSE [c1 EXCEPT !.data = IF resp.data THEN ServerData(q) ELSE None,
                        !.answers = Append(@, Answer(resp, TRUE, "", TRUE))]

\* runQuery that returns the data of an answer that carries both errors and data
runQueryDataFirst(c, q) ==
    LET resp == Response(IF c.net.ok > 0 THEN "data" ELSE c.net.fail)
        c1 == [c EXCEPT !.sent = Append(@, q),
                        !.net.ok = IF @ > 0 THEN @ - 1 ELSE 0]
    IN  IF ~resp.ok
        THEN [c1 EXCEPT !.status = "HTTPError",
                        !.answers = Append(@, Answer(resp, FALSE, "HTTPError", FALSE))]
        ELSE IF resp.errors /\ resp.kind # "errorsAndData"
        THEN [c1 EXCEPT !.status = "QueryError",
                        !.answers = Append(@, Answer(resp, TRUE, "QueryError", FALSE))]
        ELSE [c1 EXCEPT !.data = IF resp.data THEN ServerData(q) ELSE None,
                        !.answers = Append(@, Answer(resp, TRUE, "", TRUE))]

\* c.net answers the request: the next c.net.ok requests get data, the one
\* after them gets c.net.fail
runQuery(c, q) ==
    LET resp == Response(IF c.net.ok > 0 THEN "data" ELSE c.net.fail)
        c1 == [c EXCEPT !.sent = Append(@, q),
                        !.net.ok = IF @ > 0 THEN @ - 1 ELSE 0]
    IN  IF ~resp.ok
        THEN \* response.text() is logged; the body is not parsed
             [c1 EXCEPT !.status = "HTTPError",
                        !.answers = Append(@, Answer(resp, FALSE, "HTTPError", FALSE))]
        ELSE IF resp.errors
        THEN [c1 EXCEPT !.status = "QueryError",
                        !.answers = Append(@, Answer(resp, TRUE, "QueryError", FALSE))]
        ELSE [c1 EXCEPT !.data = IF resp.data THEN ServerData(q) ELSE None,
                        !.answers = Append(@, Answer(resp, TRUE, "", TRUE))]

-----------------------------------------------------------------------------
(* Introspection *)

RECURSIVE getTypeName(_)
\* None: throws "Cannot get type"
getTypeName(type) ==
    IF type.name # None THEN type.name
    ELSE IF type.ofType = None THEN None
    ELSE getTypeName(type.ofType[1])

Put(f, k, v) == (k :> v) @@ f
Count(f, k) == IF k \in DOMAIN f THEN f[k] ELSE 0

\* introspectionFieldsCache[path.join()]?.fields is truthy: any array is
CachedFieldsNonEmpty(cache, key) ==
    /\ key \in DOMAIN cache
    /\ cache[key].fields # None
    /\ Len(cache[key].fields[1]) > 0

CachedFields(cache, key) ==
    /\ key \in DOMAIN cache
    /\ cache[key].fields # None

RECURSIVE StoreFieldTypesOuter(_, _, _, _)
\* StoreFieldTypes storing, for a field of a wrapped type, the kind of the
\* wrapper in place of the name getTypeName found under it
StoreFieldTypesOuter(c, p, list, i) ==
    IF i > Len(list) THEN c
    ELSE LET type == getTypeName(list[i].type)
             outer == IF list[i].type.ofType = None THEN type
                      ELSE Some("List")
         IN
         IF type = None THEN [c EXCEPT !.status = "Cannot get type"]
         ELSE StoreFieldTypesOuter(
                  [c EXCEPT !.cache = Put(@, Join(p \o <<list[i].name>>),
                                          [fields |-> None, type |-> outer[1]]),
                            !.ret = Append(@, list[i].name)],
                  p, list, i + 1)

RECURSIVE StoreFieldTypes(_, _, _, _)
\* the for loop over result.__type?.fields ?? []; c.ret is the fields array
StoreFieldTypes(c, p, list, i) ==
    IF i > Len(list) THEN c
    ELSE LET type == getTypeName(list[i].type) IN
         IF type = None THEN [c EXCEPT !.status = "Cannot get type"]
         ELSE StoreFieldTypes(
                  [c EXCEPT !.cache = Put(@, Join(p \o <<list[i].name>>),
                                          [fields |-> None, type |-> type[1]]),
                            !.ret = Append(@, list[i].name)],
                  p, list, i + 1)

RECURSIVE introspectFieldsAsRoot(_, _)
\* introspectFields that takes a path without an entry for a path of type Query
introspectFieldsAsRoot(c, p) ==
    LET key == Join(p) IN
    IF CachedFields(c.cache, key) THEN [c EXCEPT !.ret = c.cache[key].fields[1]]
    ELSE
    LET c1 == IF Len(p) > 0 THEN introspectFieldsAsRoot(c, SliceInit(p)) ELSE c IN
    IF c1.status # "ok" THEN c1
    ELSE
    LET type == IF Len(p) > 0 /\ key \in DOMAIN c1.cache THEN c1.cache[key].type ELSE "Query"
        c2 == runQuery([c1 EXCEPT !.reqs = Put(@, key, Count(@, key) + 1)],
                       FieldsQuery(type))
    IN
    IF c2.status # "ok" THEN c2
    ELSE
    LET list == IF c2.data = None \/ c2.data[1].fields = None THEN <<>>
                ELSE c2.data[1].fields[1]
        c3 == StoreFieldTypes([c2 EXCEPT !.ret = <<>>], p, list, 1)
    IN
    IF c3.status # "ok" THEN c3
    ELSE [c3 EXCEPT !.cache = Put(@, key, [fields |-> Some(c3.ret), type |-> type]),
                    !.first = IF key \in DOMAIN @ THEN @ ELSE Put(@, key, c3.ret)]

RECURSIVE introspectFields(_, _)
introspectFields(c, p) ==
    LET key == Join(p) IN
    IF CachedFields(c.cache, key) THEN [c EXCEPT !.ret = c.cache[key].fields[1]]
    ELSE
    LET c1 == IF Len(p) > 0 THEN introspectFields(c, SliceInit(p)) ELSE c IN
    IF c1.status # "ok" THEN c1
    ELSE IF Len(p) > 0 /\ key \notin DOMAIN c1.cache
    THEN [c1 EXCEPT !.status = "Failed to inspect"]
    ELSE
    LET type == IF Len(p) > 0 THEN c1.cache[key].type ELSE "Query"
        c2 == runQuery([c1 EXCEPT !.reqs = Put(@, key, Count(@, key) + 1)],
                       FieldsQuery(type))
    IN
    IF c2.status # "ok" THEN c2
    ELSE
    LET list == IF c2.data = None \/ c2.data[1].fields = None THEN <<>>
                ELSE c2.data[1].fields[1]
        c3 == StoreFieldTypes([c2 EXCEPT !.ret = <<>>], p, list, 1)
    IN
    IF c3.status # "ok" THEN c3
    ELSE [c3 EXCEPT !.cache = Put(@, key, [fields |-> Some(c3.ret), type |-> type]),
                    !.first = IF key \in DOMAIN @ THEN @ ELSE Put(@, key, c3.ret)]

\* it => ({ name: it.name, args: it.args })
Descriptor(it) == [name |-> it.name, args |-> it.args]

\* a first call falls off the end of the function: it returns undefined
introspectMutations(c) ==
    IF c.mcache # None THEN [c EXCEPT !.mret = c.mcache]
    ELSE
    LET c1 == runQuery([c EXCEPT !.mreqs = @ + 1], MutationsQuery) IN
    IF c1.status # "ok" THEN c1
    ELSE IF c1.data = None THEN [c1 EXCEPT !.status = "TypeError"]
    ELSE LET list == c1.data[1].fields[1] IN
         [c1 EXCEPT !.mcache = Some([i \in 1..Len(list) |-> Descriptor(list[i])]),
                    !.mret = None]

-----------------------------------------------------------------------------
(* Global configuration *)

SessionToken == "r1"

FreshConfig ==
    [sessionToken |-> SessionToken, hostname |-> "corona-school-backend-dev",
     authToken |-> "authtokenS1", queries |-> <<>>, mutations |-> <<>>]

\* let config = {}
EmptyConfig ==
    [sessionToken |-> Undefined, hostname |-> Undefined,
     authToken |-> Undefined, queries |-> <<>>, mutations |-> <<>>]

SavedQuery == <<"query", " ", "{", "\n", " ", " ", "me", "\n", "}">>
SavedMutation == <<"mutation", " ", "{", "\n", " ", " ", "ping", "(", "\n", " ", " ", ")", "\n", "}">>

\* a config file an earlier run of the program left behind
SavedConfig ==
    [sessionToken |-> "r0", hostname |-> "backend", authToken |-> "t0",
     queries |-> ("q0" :> SavedQuery), mutations |-> ("m0" :> SavedMutation)]

-----------------------------------------------------------------------------
(* Start *)

EmptyTree == (<<>> :> <<>>)

\* the token a file written with login info carries
FileToken == <<"abc123">>

\* `#authToken: ${authToken}\n`
AuthTokenLine(authToken) == <<"#authToken:", " ">> \o authToken \o <<"\n">>

\* the contents of the file n1.gql: a query and a mutation, each with and
\* without a line of login info, and a text that is neither
FileTexts ==
    {SavedQuery, AuthTokenLine(FileToken) \o SavedQuery,
     SavedMutation, AuthTokenLine(FileToken) \o SavedMutation,
     <<"{", " ", "me", " ", "}">>}

\* the command lines the program is started with: none (interactive), run and
\* load with a file, an unknown command, a missing and a surplus argument
CommandLines ==
    {<<>>,
     <<"run", <<"n1", ".gql">>>>, <<"load", <<"n1", ".gql">>>>, <<"load", <<"n1">>>>,
     <<"exec", <<"n1", ".gql">>>>, <<"run">>, <<"load", <<"n1", ".gql">>, <<"g", ".gql">>>>}

Init ==
    /\ pc = "start"
    /\ error = ""
    /\ schema \in Schemas
    /\ config = EmptyConfig
    /\ disk \in {None, Some(SavedConfig)}
    /\ argv \in CommandLines
    /\ files \in IF Len(argv) = 2
                 THEN {<<>>} \cup {(<<"n1", ".gql">> :> text) : text \in FileTexts}
                 ELSE {<<>>}
    /\ introspectionFieldsCache = <<>>
    /\ introspectionMuationCache = None
    /\ query = EmptyTree
    /\ pathsToFill = <<>>
    /\ path = <<>>
    /\ fields = <<>>
    /\ chosenFields = <<>>
    /\ reprompted = FALSE
    /\ queryString = <<>>
    /\ name = Undefined
    /\ session = ""
    /\ op = ""
    /\ menu = <<>>
    /\ tmpFile = None
    /\ written = <<>>
    /\ argPrompted = FALSE
    /\ template = <<>>
    /\ sent = <<>>
    /\ answers = <<>>
    /\ fieldRequests = <<>>
    /\ mutationRequests = 0
    /\ returned = None
    /\ firstFields = <<>>
    /\ pushed = <<>>
    /\ popped = <<>>

cacheVars == <<introspectionFieldsCache, fieldRequests, firstFields>>
mutationCacheVars == <<introspectionMuationCache, mutationRequests>>
buildVars == <<query, pathsToFill, path, fields, chosenFields, reprompted, pushed, popped>>
sessionVars == <<queryString, name, session>>
mutationBuildVars == <<argPrompted, template>>
configVars == <<config, disk>>
cliVars == <<argv, files>>


\* the locals of buildQuery, executeQuery / executeMutation and buildMutation are
\* gone once the call chain they belong to has returned
NoBuild ==
    /\ query' = EmptyTree
    /\ pathsToFill' = <<>>
    /\ path' = <<>>
    /\ fields' = <<>>
    /\ chosenFields' = <<>>
    /\ reprompted' = FALSE
    /\ pushed' = <<>>
    /\ popped' = <<>>

NoSession ==
    /\ queryString' = <<>>
    /\ name' = Undefined
    /\ session' = ""

NoMutationBuild ==
    /\ argPrompted' = FALSE
    /\ template' = <<>>

\* main is past its command line block: it reads neither argv nor a file again
NoArguments ==
    /\ argv' = <<>>
    /\ files' = <<>>

\* the catch of main: the error is logged and the process ends
Fail(status) ==
    /\ pc' = "failed"
    /\ error' = status
    /\ menu' = <<>>

\* the choices of the top-level menu
MainChoices == <<"create query", "load query", "create mutation", "load mutation">>

MainMenu ==
    /\ pc' = "mainMenu"
    /\ error' = error
    /\ menu' = MainChoices

loadConfig ==
    /\ pc = "start"
    /\ written' = <<>>
    /\ tmpFile' = None
    /\ config' = IF disk = None THEN FreshConfig ELSE disk[1]
    /\ pc' = "warmMutations"
    /\ sent' = <<>> /\ answers' = <<>>
    /\ returned' = None
    /\ UNCHANGED <<error, schema, cliVars, disk, cacheVars, mutationCacheVars, buildVars,
                   sessionVars, op, menu, mutationBuildVars>>

WarmMutations ==
    /\ pc = "warmMutations"
    /\ written' = <<>>
    /\ tmpFile' = None
    /\ \E net \in Nets(1) :
        \E c \in {introspectMutations(Ctx(net))} :
        /\ sent' = c.sent /\ answers' = c.answers
        /\ introspectionMuationCache' = c.mcache
        /\ mutationRequests' = c.mreqs
        /\ IF c.status = "ok"
           THEN /\ pc' = "warmFields"
                /\ returned' = Some([fn |-> "introspectMutations", value |-> c.mret])
                /\ UNCHANGED <<error, menu>>
           ELSE /\ Fail(c.status)
                /\ returned' = None
    /\ UNCHANGED <<schema, cliVars, configVars, cacheVars, buildVars, sessionVars, op, mutationBuildVars>>

WarmFields ==
    /\ pc = "warmFields"
    /\ written' = <<>>
    /\ tmpFile' = None
    /\ \E net \in Nets(1) :
        \E c \in {introspectFields(Ctx(net), <<>>)} :
        /\ sent' = c.sent /\ answers' = c.answers
        /\ introspectionFieldsCache' = c.cache
        /\ fieldRequests' = c.reqs
        /\ firstFields' = c.first
        /\ IF c.status = "ok"
           THEN /\ IF Len(argv) > 0
                   THEN pc' = "arguments" /\ menu' = <<>> /\ error' = error
                   ELSE MainMenu
                /\ returned' = Some([fn |-> "introspectFields", path |-> <<>>,
                                     hit |-> Join(<<>>) \in DOMAIN firstFields,
                                     value |-> Some(c.ret)])
           ELSE /\ Fail(c.status)
                /\ returned' = None
    /\ UNCHANGED <<schema, cliVars, configVars, mutationCacheVars, buildVars, sessionVars,
                   op, mutationBuildVars>>

-----------------------------------------------------------------------------
(* Query commands *)

RECURSIVE addQueryOneDeeper(_, _, _, _)
\* addQuery with the nested block indented by one space instead of two
addQueryOneDeeper(tree, p, depth, i) ==
    IF i > Len(tree[p]) THEN <<>>
    ELSE LET key == tree[p][i]
             child == Append(p, key)
         IN  Repeat(" ", depth) \o <<key>>
             \o (IF Len(tree[child]) > 0
                 THEN <<" ", "{", "\n">> \o addQueryOneDeeper(tree, child, depth + 1, 1)
                      \o Repeat(" ", depth) \o <<"}", "\n">>
                 ELSE <<"\n">>)
             \o addQueryOneDeeper(tree, p, depth, i + 1)

RECURSIVE addQueryCloseFlat(_, _, _, _)
\* addQuery with the closing brace of a block not indented
addQueryCloseFlat(tree, p, depth, i) ==
    IF i > Len(tree[p]) THEN <<>>
    ELSE LET key == tree[p][i]
             child == Append(p, key)
         IN  Repeat(" ", depth) \o <<key>>
             \o (IF Len(tree[child]) > 0
                 THEN <<" ", "{", "\n">> \o addQueryCloseFlat(tree, child, depth + 2, 1)
                      \o <<"}", "\n">>
                 ELSE <<"\n">>)
             \o addQueryCloseFlat(tree, p, depth, i + 1)

RECURSIVE addQuery(_, _, _, _)
\* the text addQuery appends for the entries i.. of the node at p
addQuery(tree, p, depth, i) ==
    IF i > Len(tree[p]) THEN <<>>
    ELSE LET key == tree[p][i]
             child == Append(p, key)
         IN  Repeat(" ", depth) \o <<key>>
             \o (IF Len(tree[child]) > 0
                 THEN <<" ", "{", "\n">> \o addQuery(tree, child, depth + 2, 1)
                      \o Repeat(" ", depth) \o <<"}", "\n">>
                 ELSE <<"\n">>)
             \o addQuery(tree, p, depth, i + 1)

queryTreeToString(tree) ==
    <<"query", " ", "{", "\n">> \o addQuery(tree, <<>>, 2, 1) \o <<"}">>

\* the choices of the menu of executeQuery
QueryChoices == <<"rerun", "edit", "store", "store to file", "benchmark", "exit", "new query">>

\* executeQuery(text, nm) up to its menu; c holds the requests of the step so far
executeQuery(c0, text, nm) ==
    \E c \in {runQuery(c0, Operation(text))} :
    /\ queryString' = text
    /\ name' = nm
    /\ session' = "query"
    /\ sent' = c.sent /\ answers' = c.answers
    /\ IF c.status = "ok"
       THEN /\ pc' = "postQuery"
            /\ menu' = QueryChoices
            /\ error' = error
       ELSE Fail(c.status)

\* const query = {}; const pathsToFill = [[]]
buildQuery ==
    /\ query' = EmptyTree
    /\ pathsToFill' = <<<<>>>>
    /\ path' = <<>>
    /\ fields' = <<>>
    /\ chosenFields' = <<>>
    /\ reprompted' = FALSE
    /\ pushed' = (<<>> :> 1)
    /\ popped' = <<>>
    /\ pc' = "buildQuery"
    /\ menu' = <<>>
    /\ error' = error
    /\ sent' = <<>> /\ answers' = <<>>

\* one iteration of the while loop up to the prompt
BuildQueryPop ==
    /\ pc = "buildQuery"
    /\ written' = <<>>
    /\ tmpFile' = None
    /\ Len(pathsToFill) > 0
    /\ LET p == pathsToFill[Len(pathsToFill)] IN
       /\ pathsToFill' = SliceInit(pathsToFill)
       /\ path' = p
       /\ popped' = Put(popped, p, Count(popped, p) + 1)
       /\ \E net \in Nets(1) :
            \E c \in {introspectFields(Ctx(net), p)} :
            /\ sent' = c.sent /\ answers' = c.answers
            /\ fieldRequests' = c.reqs
            /\ firstFields' = c.first
            /\ IF c.status # "ok"
               THEN /\ Fail(c.status)
                    /\ introspectionFieldsCache' = c.cache
                    /\ returned' = None
                    /\ UNCHANGED fields
               ELSE /\ returned' = Some([fn |-> "introspectFields", path |-> p,
                                         hit |-> Join(p) \in DOMAIN firstFields,
                                         value |-> Some(c.ret)])
                    /\ error' = error
                    /\ IF Len(c.ret) = 0
                       THEN /\ pc' = "buildQuery"
                            /\ menu' = <<>>
                            /\ introspectionFieldsCache' = c.cache
                            /\ UNCHANGED fields
                       ELSE \* fields.sort() sorts the cached array in place
                            /\ pc' = "chooseFields"
                            /\ fields' = Sort(c.ret)
                            /\ menu' = Sort(c.ret)
                            /\ introspectionFieldsCache' =
                                   [c.cache EXCEPT ![Join(p)].fields = Some(Sort(c.ret))]
    /\ UNCHANGED <<schema, cliVars, configVars, mutationCacheVars, query, chosenFields,
                   reprompted, pushed, sessionVars, op, mutationBuildVars>>

RECURSIVE Pick(_, _, _)
\* the choices at the indices in S, in the order of the choices
Pick(choices, S, i) ==
    IF i > Len(choices) THEN <<>>
    ELSE (IF i \in S THEN <<choices[i]>> ELSE <<>>) \o Pick(choices, S, i + 1)

\* what a multi-select over `choices` can answer
MultiSelect(choices) == {Pick(choices, S, 1) : S \in SUBSET (1..Len(choices))}

RECURSIVE PushChosenParent(_, _, _)
\* PushChosen pushing path, the parent, instead of fieldPath
PushChosenParent(b, p, chosen) ==
    IF Len(chosen) = 0 THEN b
    ELSE LET fieldPath == Append(p, chosen[1]) IN
         PushChosenParent(
             [tree |-> (fieldPath :> <<>>)
                       @@ [b.tree EXCEPT ![p] = IF chosen[1] \in SeqToSet(@) THEN @
                                                ELSE Append(@, chosen[1])],
              work |-> Append(b.work, p),
              pushed |-> Put(b.pushed, p, Count(b.pushed, p) + 1)],
             p, Tail(chosen))

RECURSIVE PushChosen(_, _, _)
\* the for loop over chosenFields; b = [tree, work, pushed]
PushChosen(b, p, chosen) ==
    IF Len(chosen) = 0 THEN b
    ELSE LET fieldPath == Append(p, chosen[1]) IN
         PushChosen(
             [tree |-> (fieldPath :> <<>>)
                       @@ [b.tree EXCEPT ![p] = IF chosen[1] \in SeqToSet(@) THEN @
                                                ELSE Append(@, chosen[1])],
              work |-> Append(b.work, fieldPath),
              pushed |-> Put(b.pushed, fieldPath, Count(b.pushed, fieldPath) + 1)],
             p, Tail(chosen))

\* a loop that takes the first answer, empty or not
AsksNever(chosen) == FALSE

\* while (!chosenFields.length)
AsksAgain(chosen) == Len(chosen) = 0

\* the fields at p whose type has no fields of its own
ScalarFields(p) ==
    {f \in SeqToSet(fields) :
        introspectionFieldsCache[Join(Append(p, f))].type \notin DOMAIN TheSchema.objects}

\* the answer to the multi-select: the do-while asks again on an empty answer
ChooseFields ==
    /\ pc = "chooseFields"
    /\ written' = <<>>
    /\ tmpFile' = None
    /\ \E chosen \in MultiSelect(fields) :
        /\ Len(path) >= MaxDepth => SeqToSet(chosen) \subseteq ScalarFields(path)
        /\ chosenFields' = chosen
        /\ reprompted' = (reprompted \/ Len(chosen) = 0)
        /\ IF AsksAgain(chosen)
           THEN UNCHANGED <<pc, query, pathsToFill, pushed>>
           ELSE LET b == PushChosen([tree |-> query, work |-> pathsToFill,
                                     pushed |-> pushed], path, chosen) IN
                /\ pc' = "buildQuery"
                /\ query' = b.tree
                /\ pathsToFill' = b.work
                /\ pushed' = b.pushed
    /\ menu' = IF pc' = "chooseFields" THEN fields ELSE <<>>
    /\ sent' = <<>> /\ answers' = <<>>
    /\ returned' = None
    /\ UNCHANGED <<error, schema, cliVars, configVars, cacheVars, mutationCacheVars, path,
                   fields, popped, sessionVars, op, mutationBuildVars>>

\* the worklist is empty: return executeQuery(queryTreeToString(query))
BuildQueryFinish ==
    /\ pc = "buildQuery"
    /\ written' = <<>>
    /\ tmpFile' = None
    /\ Len(pathsToFill) = 0
    /\ \E net \in Nets(1) :
        executeQuery(Ctx(net), queryTreeToString(query), Undefined)
    /\ returned' = None
    /\ UNCHANGED <<schema, cliVars, configVars, cacheVars, mutationCacheVars, buildVars,
                   op, mutationBuildVars>>

\* the texts the editor can leave in the scratch file besides the one it was given
EditedTexts == {<<"query", " ", "{", "\n", " ", " ", "edited", "\n", "}">>}

\* the names typed into a name prompt
TypedNames == {"n1"}

\* for (let i = 0; i < 100; i++)
BenchRuns == 100

\* the answers to the requests of a benchmark: all get data (and one more
\* would), or the first, the second or the last one fails
BenchNets == {[ok |-> BenchRuns + 1, fail |-> "http500"]}
             \cup {[ok |-> k, fail |-> f] : k \in {0, 1, BenchRuns - 1}, f \in {"errors", "http500"}}

RECURSIVE benchLoopOneMore(_, _, _)
\* benchLoop with the test i <= 100
benchLoopOneMore(c, text, i) ==
    IF i > BenchRuns \/ c.status # "ok" THEN c
    ELSE benchLoopOneMore(runQuery(c, Operation(text)), text, i + 1)

RECURSIVE benchLoopRetries(_, _, _)
\* benchLoop sending the request of a failed iteration a second time
benchLoopRetries(c, text, i) ==
    IF i >= BenchRuns THEN c
    ELSE IF c.status # "ok" THEN runQuery([c EXCEPT !.status = "ok"], Operation(text))
    ELSE benchLoopRetries(runQuery(c, Operation(text)), text, i + 1)

RECURSIVE benchLoop(_, _, _)
\* the for loop of benchQuery from iteration i on
benchLoop(c, text, i) ==
    IF i >= BenchRuns \/ c.status # "ok" THEN c
    ELSE benchLoop(runQuery(c, Operation(text)), text, i + 1)

\* the if chain of executeQuery on the answer o to its menu
executeQueryOp(o) ==
    IF o = "rerun" THEN
        /\ \E net \in Nets(1) : executeQuery(Ctx(net), queryString, name)
        /\ NoBuild
        /\ tmpFile' = None
        /\ UNCHANGED configVars
    ELSE IF o = "edit" THEN
        \* editQuery up to the editor: fs.writeFileSync(tmpFile, queryString)
        /\ tmpFile' = Some(queryString)
        /\ pc' = "editQuery"
        /\ menu' = <<>>
        /\ sent' = <<>> /\ answers' = <<>>
        /\ NoBuild
        /\ UNCHANGED <<error, configVars, sessionVars>>
    ELSE IF o = "new query" THEN
        /\ buildQuery
        /\ NoSession
        /\ tmpFile' = None
        /\ UNCHANGED configVars
    ELSE IF o = "store" THEN
        /\ pc' = "storeQuery"
        /\ menu' = <<>>
        /\ sent' = <<>> /\ answers' = <<>>
        /\ NoBuild
        /\ tmpFile' = None
        /\ UNCHANGED <<error, configVars, sessionVars>>
    ELSE IF o = "store to file" THEN
        /\ pc' = "storeQueryToFile"
        /\ menu' = <<>>
        /\ sent' = <<>> /\ answers' = <<>>
        /\ NoBuild
        /\ tmpFile' = None
        /\ UNCHANGED <<error, configVars, sessionVars>>
    ELSE IF o = "benchmark" THEN
        \* benchQuery up to its acknowledgement prompt
        /\ \E net \in BenchNets : \E c \in {benchLoop(Call(net), queryString, 0)} :
            /\ sent' = c.sent /\ answers' = c.answers
            /\ IF c.status = "ok"
               THEN /\ pc' = "benchQuery"
                    /\ menu' = <<>>
                    /\ error' = error
               ELSE Fail(c.status)
        /\ NoBuild
        /\ tmpFile' = None
        /\ UNCHANGED <<configVars, sessionVars>>
    ELSE IF o = "exit" THEN
        /\ MainMenu
        /\ sent' = <<>> /\ answers' = <<>>
        /\ NoBuild
        /\ tmpFile' = None
        /\ UNCHANGED <<configVars, sessionVars>>
    ELSE
        /\ MainMenu
        /\ sent' = <<>> /\ answers' = <<>>
        /\ NoBuild
        /\ tmpFile' = None
        /\ UNCHANGED <<configVars, sessionVars>>

\* the answer to the menu of executeQuery
QueryMenu ==
    /\ pc = "postQuery"
    /\ written' = <<>>
    /\ NoArguments
    /\ \E o \in SeqToSet(menu) :
        /\ op' = o
        /\ executeQueryOp(o)
    /\ returned' = None
    /\ UNCHANGED <<schema, cacheVars, mutationCacheVars, mutationBuildVars>>

\* the editor exits: editQuery reads the scratch file back and executes it
EditQueryDone ==
    /\ pc = "editQuery"
    /\ written' = <<>>
    /\ \E result \in {tmpFile[1]} \cup EditedTexts :
        /\ tmpFile' = Some(result)
        /\ \E net \in Nets(1) : executeQuery(Ctx(net), result, name)
    /\ returned' = None
    /\ UNCHANGED <<schema, cliVars, configVars, cacheVars, mutationCacheVars, buildVars,
                   op, mutationBuildVars>>

\* storeConfig that writes nothing
storeConfigNot(cfg) == disk' = disk

\* JSON.stringify(config) written to configPath; JSON.parse gives it back as it is
\* (an object of strings and of objects of strings)
storeConfig(cfg) == disk' = Some(cfg)

\* the answer to the name prompt of storeQuery
StoreQueryName ==
    /\ pc = "storeQuery"
    /\ written' = <<>>
    /\ tmpFile' = None
    /\ \E n \in TypedNames \cup ({name} \ {Undefined}) :
        /\ name' = n
        /\ config' = [config EXCEPT !.queries = Put(@, n, queryString)]
        /\ storeConfig(config')
    /\ MainMenu
    /\ sent' = <<>> /\ answers' = <<>>
    /\ returned' = None
    /\ UNCHANGED <<schema, cliVars, cacheVars, mutationCacheVars, buildVars, queryString,
                   session, op, mutationBuildVars>>

\* the answer to the confirm prompt of storeQueryToFile
StoreQueryToFileConfirm ==
    /\ pc = "storeQueryToFile"
    /\ tmpFile' = None
    /\ \E withLoginInfo \in BOOLEAN :
        written' = Put(<<>>, <<name, ".gql">>,
                     IF withLoginInfo
                     THEN <<"#authToken:", " ", config.authToken, "\n">> \o queryString
                     ELSE queryString)
    /\ MainMenu
    /\ sent' = <<>> /\ answers' = <<>>
    /\ returned' = None
    /\ UNCHANGED <<schema, cliVars, configVars, cacheVars, mutationCacheVars, buildVars,
                   sessionVars, op, mutationBuildVars>>

\* the answer to the acknowledgement prompt of benchQuery
BenchQueryDone ==
    /\ pc = "benchQuery"
    /\ written' = <<>>
    /\ tmpFile' = None
    /\ \E net \in Nets(1) : executeQuery(Ctx(net), queryString, name)
    /\ returned' = None
    /\ UNCHANGED <<schema, cliVars, configVars, cacheVars, mutationCacheVars, buildVars,
                   op, mutationBuildVars>>

RECURSIVE Keys(_)
\* Object.keys of a table, as an array
Keys(table) ==
    IF DOMAIN table = {} THEN <<>>
    ELSE LET k == CHOOSE k \in DOMAIN table : TRUE
         IN  <<k>> \o Keys([x \in DOMAIN table \ {k} |-> table[x]])

\* the answer to the select prompt of loadQuery
LoadQuerySelect ==
    /\ pc = "loadQuery"
    /\ written' = <<>>
    /\ tmpFile' = None
    /\ \E n \in SeqToSet(menu) :
        \E net \in Nets(1) : executeQuery(Ctx(net), config.queries[n], n)
    /\ returned' = None
    /\ UNCHANGED <<schema, cliVars, configVars, cacheVars, mutationCacheVars, buildVars,
                   op, mutationBuildVars>>

-----------------------------------------------------------------------------
(* Mutation commands *)

\* the choices of the menu of executeMutation
MutationChoices == <<"edit", "store", "exit", "new mutation">>

\* executeMutation(text, nm) up to its menu
executeMutation(c0, text, nm) ==
    \E c \in {runQuery(c0, Operation(text))} :
    /\ queryString' = text
    /\ name' = nm
    /\ session' = "mutation"
    /\ sent' = c.sent /\ answers' = c.answers
    /\ IF c.status = "ok"
       THEN /\ pc' = "postMutation"
            /\ menu' = MutationChoices
            /\ error' = error
       ELSE Fail(c.status)

\* buildMutation up to its select prompt
buildMutation ==
    \E net \in Nets(1) :
        \E c \in {introspectMutations(Ctx(net))} :
        /\ sent' = c.sent /\ answers' = c.answers
        /\ introspectionMuationCache' = c.mcache
        /\ mutationRequests' = c.mreqs
        /\ argPrompted' = FALSE
        /\ template' = <<>>
        /\ IF c.status # "ok"
           THEN /\ Fail(c.status)
                /\ returned' = None
           ELSE /\ returned' = Some([fn |-> "introspectMutations", value |-> c.mret])
                /\ IF c.mret = None
                   THEN \* mutations.map on undefined
                        Fail("TypeError")
                   ELSE /\ pc' = "selectMutation"
                        /\ menu' = [i \in 1..Len(c.mret[1]) |-> c.mret[1][i].name]
                        /\ error' = error

\* ToNumber of an array of objects: 0 for the empty array, else NaN (None)
ToNumber(array) == IF Len(array) = 0 THEN Some(0) ELSE None

\* mutation.args > 2: the array itself is compared, and NaN > 2 is false
ArgsGreaterThanTwo(args) ==
    LET n == ToNumber(args) IN n # None /\ n[1] > 2

RECURSIVE TemplateArgs(_)
\* `    ${arg}: \${${arg}}\n` for each chosen argument
TemplateArgs(chosenArgs) ==
    IF Len(chosenArgs) = 0 THEN <<>>
    ELSE <<" ", " ", " ", " ", chosenArgs[1], ":", " ", "${", chosenArgs[1], "}", "\n">>
         \o TemplateArgs(Tail(chosenArgs))

MutationTemplate(mutationName, chosenArgs) ==
    <<"mutation", " ", "{", "\n", " ", " ", mutationName, "(", "\n">>
    \o TemplateArgs(chosenArgs)
    \o <<" ", " ", ")", "\n", "}">>

\* the answer to the select prompt of buildMutation, up to the snippet prompt
SelectMutation ==
    /\ pc = "selectMutation"
    /\ written' = <<>>
    /\ tmpFile' = None
    /\ \E i \in 1..Len(introspectionMuationCache[1]) :
        LET mutation == introspectionMuationCache[1][i] IN
        /\ mutation.name \in SeqToSet(menu)
        /\ IF ArgsGreaterThanTwo(mutation.args)
           THEN \* the answer of the multi-select is dropped: chosenArgs is
                \* undefined and the for loop over it throws
                /\ argPrompted' = TRUE
                /\ template' = <<>>
                /\ Fail("TypeError")
           ELSE /\ argPrompted' = FALSE
                /\ template' = MutationTemplate(mutation.name,
                                   [k \in 1..Len(mutation.args) |-> mutation.args[k].name])
                /\ pc' = "snippet"
                /\ menu' = <<>>
                /\ error' = error
        /\ op' = mutation.name
    /\ sent' = <<>> /\ answers' = <<>>
    /\ returned' = None
    /\ UNCHANGED <<schema, cliVars, configVars, cacheVars, mutationCacheVars, buildVars,
                   sessionVars>>

\* the values typed into the snippet prompt
TypedValues == {"1"}

RECURSIVE Fill(_, _)
\* the template with each placeholder ${arg} replaced by value
Fill(text, value) ==
    IF Len(text) = 0 THEN <<>>
    ELSE IF text[1] = "${" THEN <<value>> \o Fill(SubSeq(text, 4, Len(text)), value)
    ELSE <<text[1]>> \o Fill(Tail(text), value)

\* the answer to the snippet prompt: return executeMutation(mutationString)
SnippetDone ==
    /\ pc = "snippet"
    /\ written' = <<>>
    /\ tmpFile' = None
    /\ \E value \in TypedValues :
        \E net \in Nets(1) : executeMutation(Ctx(net), Fill(template, value), Undefined)
    /\ returned' = None
    /\ UNCHANGED <<schema, cliVars, configVars, cacheVars, mutationCacheVars, buildVars,
                   op, mutationBuildVars>>

\* executeMutationOp with exit reading queryString as the branches around it do
executeMutationOpExitThrows(o) ==
    IF o = "new mutation" THEN
        /\ buildMutation
        /\ NoSession
    ELSE
        /\ Fail("ReferenceError")
        /\ sent' = <<>> /\ answers' = <<>>
        /\ UNCHANGED <<returned, mutationCacheVars, mutationBuildVars, sessionVars>>

\* the if chain of executeMutation on the answer o to its menu; queryString is
\* no name in scope there, so evaluating it throws a ReferenceError
executeMutationOp(o) ==
    IF o = "rerun" THEN
        /\ Fail("ReferenceError")
        /\ sent' = <<>> /\ answers' = <<>>
        /\ UNCHANGED <<returned, mutationCacheVars, mutationBuildVars, sessionVars>>
    ELSE IF o = "edit" THEN
        /\ Fail("ReferenceError")
        /\ sent' = <<>> /\ answers' = <<>>
        /\ UNCHANGED <<returned, mutationCacheVars, mutationBuildVars, sessionVars>>
    ELSE IF o = "new mutation" THEN
        /\ buildMutation
        /\ NoSession
    ELSE IF o = "store" THEN
        /\ Fail("ReferenceError")
        /\ sent' = <<>> /\ answers' = <<>>
        /\ UNCHANGED <<returned, mutationCacheVars, mutationBuildVars, sessionVars>>
    ELSE IF o = "exit" THEN
        /\ MainMenu
        /\ sent' = <<>> /\ answers' = <<>>
        /\ returned' = None
        /\ UNCHANGED <<mutationCacheVars, mutationBuildVars, sessionVars>>
    ELSE
        /\ MainMenu
        /\ sent' = <<>> /\ answers' = <<>>
        /\ returned' = None
        /\ UNCHANGED <<mutationCacheVars, mutationBuildVars, sessionVars>>

\* the answer to the menu of executeMutation
MutationMenu ==
    /\ pc = "postMutation"
    /\ written' = <<>>
    /\ NoArguments
    /\ tmpFile' = None
    /\ \E o \in SeqToSet(menu) :
        /\ op' = o
        /\ executeMutationOp(o)
    /\ UNCHANGED <<schema, configVars, cacheVars, buildVars>>

\* the answer to the select prompt of loadMutation
LoadMutationSelect ==
    /\ pc = "loadMutation"
    /\ written' = <<>>
    /\ tmpFile' = None
    /\ \E n \in SeqToSet(menu) :
        \E net \in Nets(1) : executeMutation(Ctx(net), config.mutations[n], n)
    /\ returned' = None
    /\ UNCHANGED <<schema, cliVars, configVars, cacheVars, mutationCacheVars, buildVars,
                   op, mutationBuildVars>>

-----------------------------------------------------------------------------
(* Main *)

\* String.prototype.replace(".gql", ""): the first ".gql" is removed
RECURSIVE ReplaceGql(_)
ReplaceGql(arg) ==
    IF Len(arg) = 0 THEN <<>>
    ELSE IF arg[1] = ".gql" THEN Tail(arg)
    ELSE <<arg[1]>> \o ReplaceGql(Tail(arg))

\* the string the tokens spell
RECURSIVE Text(_)
Text(tokens) == IF Len(tokens) = 0 THEN "" ELSE tokens[1] \o Text(Tail(tokens))

\* const name = process.argv[3].replace(".gql", "")
FileName(arg) == Text(ReplaceGql(arg))

Whitespace == {" ", "\n"}

\* the longest run of tokens other than white space text starts with
RECURSIVE NonSpace(_)
NonSpace(text) ==
    IF Len(text) = 0 \/ text[1] \in Whitespace THEN <<>>
    ELSE <<text[1]>> \o NonSpace(Tail(text))

\* a pattern that matches no file
AuthTokenMatchNever(text) == None

\* /#authToken: (\S+)/mg.exec(fileContent): the group of the first match, None
\* (null) without a match
RECURSIVE AuthTokenMatch(_)
AuthTokenMatch(text) ==
    IF Len(text) < 3 THEN None
    ELSE IF text[1] = "#authToken:" /\ text[2] = " " /\ text[3] \notin Whitespace
    THEN Some(NonSpace(SubSeq(text, 3, Len(text))))
    ELSE AuthTokenMatch(Tail(text))

\* String.prototype.includes on a word
Includes(text, word) == word \in SeqToSet(text)

\* `mutation { loginLegacy(authToken: "${authToken}") }`
LoginMutation(authToken) ==
    [kind |-> "login",
     text |-> <<"mutation", " ", "{", " ", "loginLegacy", "(", "authToken", ":", " ", "\"">>
              \o authToken \o <<"\"", ")", " ", "}">>]

\* loginTemp: it throws when config has no hostname
loginTemp(c, authToken) ==
    IF config.hostname = Undefined THEN [c EXCEPT !.status = "The hostname must be set"]
    ELSE runQuery(c, LoginMutation(authToken))

\* RunOrLoad with run entering the session of the operation as load does
RunOrLoadSession(c) ==
    LET nm == FileName(argv[2])
        fileContent == files[<<nm, ".gql">>]
    IN
    IF Includes(fileContent, "query") THEN executeQuery(c, fileContent, nm)
    ELSE IF Includes(fileContent, "mutation") THEN executeMutation(c, fileContent, nm)
    ELSE /\ Fail("Unknown Query type")
         /\ sent' = c.sent /\ answers' = c.answers
         /\ NoSession

\* RunOrLoad with every command other than load taken as run
RunOrLoadAnyCommand(c) ==
    LET nm == FileName(argv[2])
        fileContent == files[<<nm, ".gql">>]
    IN
    IF Includes(fileContent, "query") \/ Includes(fileContent, "mutation") THEN
        IF argv[1] = "load" THEN
            IF Includes(fileContent, "query")
            THEN executeQuery(c, fileContent, nm)
            ELSE executeMutation(c, fileContent, nm)
        ELSE
            \E c1 \in {runQuery(c, Operation(fileContent))} :
            /\ sent' = c1.sent /\ answers' = c1.answers
            /\ NoSession
            /\ IF c1.status = "ok"
               THEN pc' = "done" /\ menu' = <<>> /\ error' = error
               ELSE Fail(c1.status)
    ELSE
        /\ Fail("Unknown Query type")
        /\ sent' = c.sent /\ answers' = c.answers
        /\ NoSession

\* main from the test of fileContent on, after a login; c holds the requests
\* of the step so far
RunOrLoad(c) ==
    LET o == argv[1]
        nm == FileName(argv[2])
        fileContent == files[<<nm, ".gql">>]
    IN
    IF Includes(fileContent, "query") \/ Includes(fileContent, "mutation") THEN
        IF o = "load" THEN
            IF Includes(fileContent, "query")
            THEN executeQuery(c, fileContent, nm)
            ELSE executeMutation(c, fileContent, nm)
        ELSE IF o = "run" THEN
            \E c1 \in {runQuery(c, Operation(fileContent))} :
            /\ sent' = c1.sent /\ answers' = c1.answers
            /\ NoSession
            /\ IF c1.status = "ok"
               THEN pc' = "done" /\ menu' = <<>> /\ error' = error
               ELSE Fail(c1.status)
        ELSE
            /\ Fail("Unknown operation")
            /\ sent' = c.sent /\ answers' = c.answers
            /\ NoSession
    ELSE
        /\ Fail("Unknown Query type")
        /\ sent' = c.sent /\ answers' = c.answers
        /\ NoSession

\* main from the test of process.argv up to the first prompt or the end
ReadArguments ==
    /\ pc = "arguments"
    /\ written' = <<>>
    /\ tmpFile' = None
    /\ returned' = None
    /\ IF Len(argv) # 2 THEN
           /\ Fail("Missing file argument")
           /\ sent' = <<>> /\ answers' = <<>>
           /\ NoSession
       ELSE IF <<FileName(argv[2]), ".gql">> \notin DOMAIN files THEN
           \* readFileSync throws
           /\ Fail("ENOENT")
           /\ sent' = <<>> /\ answers' = <<>>
           /\ NoSession
       ELSE
           LET loginInfo == AuthTokenMatch(files[<<FileName(argv[2]), ".gql">>]) IN
           IF loginInfo # None THEN
               \E net \in Nets(2) :
                   \E c \in {loginTemp(Ctx(net), loginInfo[1])} :
                   IF c.status = "ok" THEN RunOrLoad(c)
                   ELSE /\ Fail(c.status)
                        /\ sent' = c.sent /\ answers' = c.answers
                        /\ NoSession
           ELSE
               \* login up to its first prompt
               /\ pc' = "loginHostname"
               /\ menu' = <<>>
               /\ sent' = <<>> /\ answers' = <<>>
               /\ NoSession
               /\ error' = error
    /\ UNCHANGED <<schema, cliVars, configVars, cacheVars, mutationCacheVars, buildVars,
                   op, mutationBuildVars>>

\* what is typed into the prompt for the server besides accepting its initial value
TypedHosts == {"h1"}

\* the answer to the first prompt of login
LoginHostname ==
    /\ pc = "loginHostname"
    /\ written' = <<>>
    /\ tmpFile' = None
    /\ returned' = None
    /\ \E h \in {config.hostname} \cup TypedHosts :
        config' = [config EXCEPT !.hostname = h]
    /\ pc' = "loginToken"
    /\ sent' = <<>> /\ answers' = <<>>
    /\ UNCHANGED <<error, schema, cliVars, disk, cacheVars, mutationCacheVars, buildVars,
                   sessionVars, op, menu, mutationBuildVars>>

\* the answer to the second prompt of login, and main up to the next prompt or
\* the end
LoginToken ==
    /\ pc = "loginToken"
    /\ written' = <<>>
    /\ tmpFile' = None
    /\ returned' = None
    /\ \E t \in {config.authToken} :
        /\ config' = [config EXCEPT !.authToken = t]
        /\ \E net \in Nets(2) :
            \E c \in {runQuery(Ctx(net), LoginMutation(<<t>>))} :
            IF c.status = "ok"
            THEN /\ storeConfig(config')
                 /\ RunOrLoad(c)
            ELSE /\ Fail(c.status)
                 /\ sent' = c.sent /\ answers' = c.answers
                 /\ NoSession
                 /\ UNCHANGED disk
    /\ UNCHANGED <<schema, cliVars, cacheVars, mutationCacheVars, buildVars,
                   op, mutationBuildVars>>

\* the answer to the top-level menu
MainMenuChoice ==
    /\ pc = "mainMenu"
    /\ written' = <<>>
    /\ tmpFile' = None
    /\ \E o \in SeqToSet(menu) :
        /\ op' = o
        /\ IF o = "create query" THEN
               /\ buildQuery
               /\ returned' = None
               /\ NoMutationBuild
               /\ UNCHANGED mutationCacheVars
           ELSE IF o = "load query" THEN
               /\ pc' = "loadQuery"
               /\ menu' = Keys(config.queries)
               /\ sent' = <<>> /\ answers' = <<>>
               /\ returned' = None
               /\ NoBuild
               /\ NoMutationBuild
               /\ UNCHANGED <<error, mutationCacheVars>>
           ELSE IF o = "create mutation" THEN
               /\ buildMutation
               /\ NoBuild
           ELSE IF o = "load mutation" THEN
               /\ pc' = "loadMutation"
               /\ menu' = Keys(config.mutations)
               /\ sent' = <<>> /\ answers' = <<>>
               /\ returned' = None
               /\ NoBuild
               /\ NoMutationBuild
               /\ UNCHANGED <<error, mutationCacheVars>>
           ELSE
               /\ sent' = <<>> /\ answers' = <<>>
               /\ returned' = None
               /\ NoBuild
               /\ NoMutationBuild
               /\ UNCHANGED <<pc, error, menu, mutationCacheVars>>
    /\ NoSession
    /\ UNCHANGED <<schema, cliVars, configVars, cacheVars>>

Next ==
    \/ loadConfig
    \/ WarmMutations
    \/ WarmFields
    \/ ReadArguments
    \/ LoginHostname
    \/ LoginToken
    \/ MainMenuChoice
    \/ BuildQueryPop
    \/ ChooseFields
    \/ BuildQueryFinish
    \/ QueryMenu
    \/ EditQueryDone
    \/ StoreQueryName
    \/ StoreQueryToFileConfirm
    \/ BenchQueryDone
    \/ LoadQuerySelect
    \/ SelectMutation
    \/ SnippetDone
    \/ MutationMenu
    \/ LoadMutationSelect

Spec == Init /\ [][Next]_vars

-----------------------------------------------------------------------------
(* queryTreeToString on its own: every operation tree over TreeNames up to
   MaxTreeDepth levels is rendered *)

TreeNames == {"a", "b"}

MaxTreeDepth == 2

\* the arrays of distinct names: the keys of an object in insertion order
KeyOrders ==
    {ks \in UNION {[1..n -> TreeNames] : n \in 0..Cardinality(TreeNames)} :
        \A i, j \in 1..Len(ks) : i # j => ks[i] # ks[j]}

\* the tree t as the value of the key k
Graft(k, t) == [p \in {<<k>> \o q : q \in DOMAIN t} |-> t[Tail(p)]]

RECURSIVE GraftAll(_, _, _)
GraftAll(ks, sub, i) ==
    IF i > Len(ks) THEN <<>>
    ELSE Graft(ks[i], sub[i]) @@ GraftAll(ks, sub, i + 1)

RECURSIVE Trees(_)
\* the operation trees of at most d levels
Trees(d) ==
    IF d = 0 THEN {EmptyTree}
    ELSE UNION {{(<<>> :> ks) @@ GraftAll(ks, sub, 1) :
                    sub \in [1..Len(ks) -> Trees(d - 1)]} : ks \in KeyOrders}

TreeInit ==
    /\ pc = "tree"
    /\ query \in Trees(MaxTreeDepth)
    /\ error = ""
    /\ schema = "user"
    /\ config = EmptyConfig
    /\ disk = None
    /\ argv = <<>>
    /\ files = <<>>
    /\ introspectionFieldsCache = <<>>
    /\ introspectionMuationCache = None
    /\ pathsToFill = <<>>
    /\ path = <<>>
    /\ fields = <<>>
    /\ chosenFields = <<>>
    /\ reprompted = FALSE
    /\ queryString = <<>>
    /\ name = Undefined
    /\ session = ""
    /\ op = ""
    /\ menu = <<>>
    /\ tmpFile = None
    /\ written = <<>>
    /\ argPrompted = FALSE
    /\ template = <<>>
    /\ sent = <<>>
    /\ answers = <<>>
    /\ fieldRequests = <<>>
    /\ mutationRequests = 0
    /\ returned = None
    /\ firstFields = <<>>
    /\ pushed = <<>>
    /\ popped = <<>>

RenderTree ==
    /\ pc = "tree"
    /\ pc' = "rendered"
    /\ queryString' = queryTreeToString(query)
    /\ UNCHANGED <<error, schema, cliVars, configVars, cacheVars, mutationCacheVars, buildVars,
                   name, session, op, menu, tmpFile, written, mutationBuildVars,
                   sent, answers, returned>>

TreeNext == RenderTree

SpecTree == TreeInit /\ [][TreeNext]_vars

-----------------------------------------------------------------------------
(* introspectFields on its own: it is called with every path over ResolveNames
   up to MaxPathLen elements, field chains of the schema or not, one call after
   the other on the cache the calls before have left *)

ResolveNames == {"user", "me", "id", "friend", "nope"}

MaxPathLen == 3

RECURSIVE PathsOf(_)
\* the paths of n elements
PathsOf(n) ==
    IF n = 0 THEN {<<>>}
    ELSE {Append(p, f) : p \in PathsOf(n - 1), f \in ResolveNames}

ResolvePaths == UNION {PathsOf(n) : n \in 0..MaxPathLen}

ResolveInit ==
    /\ pc = "resolve"
    /\ schema \in Schemas
    /\ error = ""
    /\ config = FreshConfig
    /\ disk = None
    /\ argv = <<>>
    /\ files = <<>>
    /\ introspectionFieldsCache = <<>>
    /\ introspectionMuationCache = None
    /\ query = EmptyTree
    /\ pathsToFill = <<>>
    /\ path = <<>>
    /\ fields = <<>>
    /\ chosenFields = <<>>
    /\ reprompted = FALSE
    /\ queryString = <<>>
    /\ name = Undefined
    /\ session = ""
    /\ op = ""
    /\ menu = <<>>
    /\ tmpFile = None
    /\ written = <<>>
    /\ argPrompted = FALSE
    /\ template = <<>>
    /\ sent = <<>>
    /\ answers = <<>>
    /\ fieldRequests = <<>>
    /\ mutationRequests = 0
    /\ returned = None
    /\ firstFields = <<>>
    /\ pushed = <<>>
    /\ popped = <<>>

\* await introspectFields(p) under the try of main: what it throws ends the
\* process in the handler
ResolveFields ==
    /\ pc = "resolve"
    /\ \E p \in ResolvePaths :
        /\ path' = p
        /\ \E net \in Nets(MaxPathLen + 1) :
            \E c \in {introspectFields(Ctx(net), p)} :
            /\ sent' = c.sent /\ answers' = c.answers
            /\ introspectionFieldsCache' = c.cache
            /\ fieldRequests' = c.reqs
            /\ firstFields' = c.first
            /\ IF c.status = "ok"
               THEN /\ returned' = Some([fn |-> "introspectFields", path |-> p,
                                         hit |-> Join(p) \in DOMAIN firstFields,
                                         value |-> Some(c.ret)])
                    /\ UNCHANGED <<pc, error, menu>>
               ELSE /\ Fail(c.status)
                    /\ returned' = None
    /\ UNCHANGED <<schema, cliVars, configVars, mutationCacheVars, query, pathsToFill,
                   fields, chosenFields, reprompted, pushed, popped, sessionVars, op,
                   tmpFile, written, mutationBuildVars>>

ResolveNext == ResolveFields

SpecResolve == ResolveInit /\ [][ResolveNext]_vars

-----------------------------------------------------------------------------
(* Properties *)

\* buildQuery has just handed its operation to executeQuery
BuilderDone == pc = "postQuery" /\ DOMAIN pushed # {}

\* the fields the path p resolves to
Resolved(p) == introspectionFieldsCache[Join(p)].fields[1]

\* C1: a resolveFields(p) after a first successful one returns the same set of
\* fields and issues no introspection request: the path has been requested
\* once in all, whatever was resolved in between, also when it has no fields
C1_ResolveFieldsMemoized ==
    (returned # None /\ returned[1].fn = "introspectFields" /\ returned[1].hit) =>
        LET key == Join(returned[1].path) IN
        /\ SeqToSet(returned[1].value[1]) = SeqToSet(firstFields[key])
        /\ \A i \in 1..Len(sent) : sent[i].kind # "fields"
        /\ fieldRequests[key] = 1

\* C1 witness: a path without fields is resolved again, after its first resolution
C1_Witness ==
    /\ returned # None
    /\ returned[1].fn = "introspectFields"
    /\ returned[1].hit
    /\ Len(returned[1].path) = 2
    /\ returned[1].value = Some(<<>>)

UserIdTree == (<<>> :> <<"user">>) @@ (<<"user">> :> <<"id">>) @@ (<<"user", "id">> :> <<>>)

UserIdText ==
    <<"query", " ", "{", "\n",
      " ", " ", "user", " ", "{", "\n",
      " ", " ", " ", " ", "id", "\n",
      " ", " ", "}", "\n",
      "}">>

\* the step that ended buildQuery with user and then id selected
BuiltUserId ==
    /\ schema = "user"
    /\ query = UserIdTree
    /\ Len(pathsToFill) = 0
    /\ session = "query"

\* C2: with root field user of type User and User's scalar field id, selecting
\* user and then id builds exactly "query {\n  user {\n    id\n  }\n}", and
\* that text is what the query session sends
C2_UserIdQuery ==
    BuiltUserId =>
        /\ queryString = UserIdText
        /\ sent = <<Operation(UserIdText)>>

\* C2 witness: the built query was executed and its menu is shown
C2_Witness == BuiltUserId /\ pc = "postQuery" /\ chosenFields = <<"id">>

\* C3: in a run of buildQuery no path is pushed twice or popped twice, only
\* pushed paths are popped, the worklist holds the pushed paths not popped yet,
\* and when the run ends every pushed path has been popped
C3_EachPathOnce ==
    /\ \A p \in DOMAIN pushed : pushed[p] = 1
    /\ \A p \in DOMAIN popped : popped[p] = 1 /\ p \in DOMAIN pushed
    /\ pc \in {"buildQuery", "chooseFields"} =>
           /\ SeqToSet(pathsToFill) = DOMAIN pushed \ DOMAIN popped
           /\ Len(pathsToFill) = Cardinality(SeqToSet(pathsToFill))
    /\ BuilderDone => DOMAIN popped = DOMAIN pushed

\* C3 witness: a run ended in which two fields were chosen at one prompt
C3_Witness ==
    /\ BuilderDone
    /\ \E p \in DOMAIN query : Len(query[p]) = 2
    /\ Cardinality(DOMAIN popped) >= 5

\* C4: when buildQuery ends, a node whose path resolves to fields has at least
\* one child and a node whose path resolves to no fields has none; while a
\* prompt is shown, empty answers included, nothing is recorded under its node
C4_NonEmptySelections ==
    /\ BuilderDone =>
           \A p \in DOMAIN query :
               /\ CachedFields(introspectionFieldsCache, Join(p))
               /\ Len(Resolved(p)) > 0 => Len(query[p]) >= 1
               /\ Len(Resolved(p)) = 0 => Len(query[p]) = 0
    /\ pc = "chooseFields" => Len(query[path]) = 0

\* C4 witness: a run ended in which an empty answer was given and asked again,
\* with nodes of both kinds in the tree
C4_Witness ==
    /\ BuilderDone
    /\ reprompted
    /\ \E p \in DOMAIN query : Len(query[p]) >= 1 /\ Len(p) >= 1
    /\ \E p \in DOMAIN query : Len(query[p]) = 0

RECURSIVE SplitLines(_)
\* the lines of a text
SplitLines(text) ==
    IF "\n" \notin SeqToSet(text) THEN <<text>>
    ELSE LET i == CHOOSE i \in 1..Len(text) :
                      text[i] = "\n" /\ \A j \in 1..(i - 1) : text[j] # "\n"
         IN  <<SubSeq(text, 1, i - 1)>> \o SplitLines(SubSeq(text, i + 1, Len(text)))

\* the number of spaces a line starts with
Indent(line) ==
    IF \A j \in 1..Len(line) : line[j] = " " THEN Len(line)
    ELSE (CHOOSE j \in 1..Len(line) : line[j] # " " /\ \A h \in 1..(j - 1) : line[h] = " ") - 1

Body(line) == SubSeq(line, Indent(line) + 1, Len(line))

IsLeafLine(line) == Len(Body(line)) = 1 /\ Body(line)[1] \notin {"{", "}"}
IsOpenLine(line) == Len(Body(line)) = 3 /\ Body(line)[2] = " " /\ Body(line)[3] = "{"
                    /\ Body(line)[1] \notin {"{", "}"}
IsCloseLine(line) == Body(line) = <<"}">>

\* opening braces minus closing braces among the first n tokens
RECURSIVE Open(_, _)
Open(text, n) ==
    IF n = 0 THEN 0
    ELSE Open(text, n - 1) + (IF text[n] = "{" THEN 1 ELSE 0)

RECURSIVE Closed(_, _)
Closed(text, n) ==
    IF n = 0 THEN 0
    ELSE Closed(text, n - 1) + (IF text[n] = "}" THEN 1 ELSE 0)

Balanced(text) ==
    /\ \A n \in 0..Len(text) : Closed(text, n) <= Open(text, n)
    /\ Closed(text, Len(text)) = Open(text, Len(text))

\* the nodes of the tree other than the root
FieldNodes(tree) == DOMAIN tree \ {<<>>}

\* C5: queryTreeToString gives balanced braces; between "query {" and "}" each
\* field has one line of its own, indented by two spaces per nesting level, a
\* leaf as its bare name and a field with children as "name {", whose block
\* starts two spaces deeper and is closed by a "}" at the field's indentation
C5_RenderedTree ==
    pc = "rendered" =>
        LET lines == SplitLines(queryString)
            n == Len(lines)
            inner == 2..(n - 1)
            at(k, leaf, level) ==
                {i \in inner : /\ Indent(lines[i]) = 2 * level
                               /\ IF leaf THEN Body(lines[i]) = <<k>>
                                  ELSE Body(lines[i]) = <<k, " ", "{">>}
            nodes(k, leaf, level) ==
                {q \in FieldNodes(query) : /\ Len(q) = level
                                           /\ q[Len(q)] = k
                                           /\ (Len(query[q]) = 0) = leaf}
        IN  /\ Balanced(queryString)
            /\ n >= 2
            /\ lines[1] = <<"query", " ", "{">>
            /\ lines[n] = <<"}">>
            /\ \A i \in inner :
                   IsLeafLine(lines[i]) \/ IsOpenLine(lines[i]) \/ IsCloseLine(lines[i])
            /\ \A k \in TreeNames, leaf \in BOOLEAN, level \in 1..(MaxTreeDepth + 1) :
                   Cardinality(at(k, leaf, level)) = Cardinality(nodes(k, leaf, level))
            /\ Cardinality({i \in inner : ~IsCloseLine(lines[i])})
                   = Cardinality(FieldNodes(query))
            /\ \A i \in inner :
                   IsOpenLine(lines[i]) =>
                       /\ i + 1 < n
                       /\ Indent(lines[i + 1]) = Indent(lines[i]) + 2
                       /\ \E j \in (i + 2)..(n - 1) :
                              /\ lines[j] = Repeat(" ", Indent(lines[i])) \o <<"}">>
                              /\ \A h \in (i + 1)..(j - 1) :
                                     Indent(lines[h]) > Indent(lines[i])

\* C5 witness: a rendered tree with a leaf and a block at the top level and a
\* block inside a block
C5_Witness ==
    /\ pc = "rendered"
    /\ query[<<>>] = <<"b", "a">>
    /\ query[<<"b">>] = <<>>
    /\ query[<<"a">>] = <<"a", "b">>

\* the table of config a session stores into
Table(kind) == IF kind = "query" THEN "queries" ELSE "mutations"

\* the post-run menu of a session
PostMenu(kind) == IF kind = "query" THEN "postQuery" ELSE "postMutation"

\* C6: in a query session and in a mutation session, after store was chosen
\* the name prompt is shown, and once it is answered the table of the session
\* maps the name entered to the operation executed, in config and in the
\* config file
C6_StoreStores ==
    (op = "store" /\ session # "") =>
        /\ pc # "failed"
        /\ \/ pc \in {"storeQuery", "storeMutation"}
           \/ /\ name \in DOMAIN config[Table(session)]
              /\ config[Table(session)][name] = queryString
              /\ disk # None
              /\ name \in DOMAIN disk[1][Table(session)]
              /\ disk[1][Table(session)][name] = queryString

\* C7: in a query session and in a mutation session, after edit was chosen the
\* scratch file holds the operation in hand while the editor runs, and what
\* the editor leaves in it is executed next, followed by the menu of the same
\* kind of session
C7_EditExecutes ==
    (op = "edit" /\ session # "") =>
        /\ tmpFile # None
        /\ \/ pc \in {"editQuery", "editMutation"} /\ tmpFile[1] = queryString
           \/ /\ queryString = tmpFile[1]
              /\ sent = <<Operation(queryString)>>
              /\ \/ pc = PostMenu(session)
                 \/ pc = "failed" /\ error \in {"HTTPError", "QueryError"}

\* C8: the post-run menu of a query session and of a mutation session offers
\* rerun, and after rerun was chosen the operation in hand is what was sent
C8_RerunOffered ==
    /\ pc \in {"postQuery", "postMutation"} => "rerun" \in SeqToSet(menu)
    /\ (op = "rerun" /\ session # "") =>
           /\ sent = <<Operation(queryString)>>
           /\ \/ pc = PostMenu(session)
              \/ pc = "failed" /\ error \in {"HTTPError", "QueryError"}

RECURSIVE Placeholders(_)
\* the names in the placeholders ${name} of a template
Placeholders(text) ==
    IF Len(text) = 0 THEN <<>>
    ELSE IF text[1] = "${" THEN <<text[2]>> \o Placeholders(Tail(text))
    ELSE Placeholders(Tail(text))

\* the argument names of the mutation called n
ArgNames(n) ==
    LET m == CHOOSE m \in SeqToSet(TheSchema.mutations) : m.name = n
    IN  [k \in 1..Len(m.args) |-> m.args[k].name]

\* C9: when the template of a mutation is handed to the snippet prompt, the
\* argument multi-select was shown if the mutation has more than two
\* arguments, and was not shown if it has at most two, the template then
\* holding one placeholder for every argument
C9_ArgumentPrompt ==
    pc = "snippet" =>
        /\ Len(ArgNames(op)) > 2 => argPrompted
        /\ Len(ArgNames(op)) <= 2 =>
               ~argPrompted /\ Placeholders(template) = ArgNames(op)

\* the descriptors of the mutations of the schema
Descriptors ==
    [i \in 1..Len(TheSchema.mutations) |-> Descriptor(TheSchema.mutations[i])]

\* C10: every successful resolveMutations, the first one included, returns the
\* list of mutation descriptors, and one Mutation introspection request was
\* issued in all
C10_MutationsReturned ==
    (returned # None /\ returned[1].fn = "introspectMutations") =>
        /\ returned[1].value = Some(Descriptors)
        /\ mutationRequests = 1

\* C14: a 2xx answer that carries errors, with or without data, makes runQuery
\* throw QueryError and return nothing: the caller does not go on, the error
\* reaches the handler of main
C14_ErrorsRaiseQueryError ==
    \A i \in 1..Len(answers) :
        answers[i].response \in {"errors", "errorsAndData"} =>
            /\ answers[i].raised = "QueryError"
            /\ ~answers[i].returns
            /\ pc = "failed"
            /\ error = "QueryError"

\* C14 witness: a fields introspection request was answered with errors and data
C14_Witness ==
    \E i \in 1..Len(answers) :
        /\ answers[i].response = "errorsAndData"
        /\ sent[i].kind = "fields"
        /\ Len(path) = 1

\* C15: an answer with status 500 makes runQuery throw HTTPError without
\* parsing the body as JSON, also when the body carries errors
C15_StatusRaisesHTTPError ==
    \A i \in 1..Len(answers) :
        answers[i].response \in {"http500", "http500errors"} =>
            /\ answers[i].raised = "HTTPError"
            /\ ~answers[i].parsed
            /\ ~answers[i].returns
            /\ pc = "failed"
            /\ error = "HTTPError"

\* C15 witness: an operation was answered with status 500 and a body with errors
C15_Witness ==
    \E i \in 1..Len(answers) :
        /\ answers[i].response = "http500errors"
        /\ sent[i].kind = "operation"
        /\ session = "mutation"

\* a failed transport call is the last request of its step and ends the
\* program in the handler of main, with no prompt shown
FailureIsLast ==
    \A i \in 1..Len(answers) :
        answers[i].raised # "" =>
            /\ i = Len(answers)
            /\ Len(sent) = Len(answers)
            /\ pc = "failed"
            /\ error = answers[i].raised
            /\ menu = <<>>

\* C16: a failed transport call is never retried: it is the last request the
\* program sends, no prompt follows it and the program takes no step after
\* the handler of main has logged the error
C16_NoRetry == []FailureIsLast /\ [][pc # "failed"]_vars

\* C16 witness: the last request of a benchmark failed
C16_Witness ==
    /\ pc = "failed"
    /\ op = "benchmark"
    /\ Len(answers) = 100
    /\ answers[100].raised = "QueryError"

\* the two introspection calls at the start of main have succeeded
WarmedUp ==
    /\ introspectionMuationCache # None
    /\ CachedFields(introspectionFieldsCache, Join(<<>>))

\* the program was started with arguments and main is past reading them
PastArguments == Len(argv) > 0 /\ WarmedUp /\ pc # "arguments"

LoginPrompts == {"loginHostname", "loginToken"}
Menus == {"mainMenu", "postQuery", "postMutation"}

\* the program was started with the command cmd and the name of a file
Started(cmd) == Len(argv) = 2 /\ argv[1] = cmd

\* the file n1.gql exists, with a line of login info or without one
FileExists == <<"n1", ".gql">> \in DOMAIN files
TheFile == files[<<"n1", ".gql">>]
HasToken == FileExists /\ SubSeq(TheFile, 1, 4) = AuthTokenLine(FileToken)

\* the operations among the requests of the last step
RECURSIVE Operations(_)
Operations(reqs) ==
    IF Len(reqs) = 0 THEN <<>>
    ELSE (IF reqs[1].kind = "operation" THEN <<reqs[1]>> ELSE <<>>) \o Operations(Tail(reqs))

\* C11: started as run with the name of a file that does not exist, the
\* program sends no request of any kind, introspection included, and ends in
\* the handler of main once it has looked for the file
C11_MissingFileNoRequest ==
    (Started("run") /\ ~FileExists) =>
        /\ sent = <<>>
        /\ mutationRequests = 0
        /\ DOMAIN fieldRequests = {}
        /\ PastArguments => pc = "failed"

\* in a state past the arguments, a file with login info has led to the login
\* request with its token and to no login prompt
TokenLogsIn ==
    ((Started("load") \/ Started("run")) /\ HasToken /\ PastArguments) =>
        /\ pc \notin LoginPrompts
        /\ Len(sent) >= 1
        /\ sent[1] = LoginMutation(FileToken)
        /\ \A i \in 2..Len(sent) : sent[i].kind # "login"

\* a login prompt is shown only by main on its way from the arguments, for a
\* file without login info
PromptsOnlyWithoutToken ==
    pc' \in LoginPrompts =>
        /\ pc \in {"arguments", "loginHostname"}
        /\ ~HasToken

\* C12: a file with a line #authToken: T given to load or run makes the
\* program log in with exactly T, and the prompts of the interactive login
\* are shown at no later point of the process, the top-level menu included
C12_TokenLogin == []TokenLogsIn /\ [][PromptsOnlyWithoutToken]_vars

\* C12 witness: a query file with login info was loaded and executed
C12_Witness ==
    /\ Started("load")
    /\ HasToken
    /\ pc = "postQuery"
    /\ sent = <<LoginMutation(FileToken), Operation(TheFile)>>

\* C13: without a config file left by an earlier interactive session, the
\* automatic login sends no login request and ends the program in the handler
\* of main
C13_NoHostnameNoLogin ==
    (Len(argv) = 2 /\ HasToken /\ PastArguments /\ disk = None) =>
        /\ pc = "failed"
        /\ \A i \in 1..Len(sent) : sent[i].kind # "login"

\* at the acknowledgement prompt the operation in hand has been sent 100
\* times and nothing else; back at the menu it has been sent once more
BenchmarkSends ==
    /\ pc = "benchQuery" =>
           /\ Len(sent) = 100
           /\ \A i \in 1..Len(sent) : sent[i] = Operation(queryString)
           /\ menu = <<>>
    /\ (pc = "postQuery" /\ op = "benchmark") => sent = <<Operation(queryString)>>

\* benchmark leads from the menu to the one acknowledgement prompt and from
\* there back to the menu, the operation and its name unchanged
BenchmarkSteps ==
    /\ (pc = "postQuery" /\ op' = "benchmark") =>
           /\ pc' \in {"benchQuery", "failed"}
           /\ queryString' = queryString
           /\ name' = name
    /\ pc = "benchQuery" =>
           /\ pc' \in {"postQuery", "failed"}
           /\ pc' = "postQuery" => menu' = QueryChoices
           /\ queryString' = queryString
           /\ name' = name

\* C17: benchmark executes the operation in hand 100 times with no prompt in
\* between, shows one acknowledgement prompt, executes the operation once
\* more and is back at the post-run menu with operation and name unchanged
C17_Benchmark == []BenchmarkSends /\ [][BenchmarkSteps]_vars

\* C17 witness: a loaded query is back at the menu after its benchmark
C17_Witness ==
    /\ pc = "postQuery"
    /\ op = "benchmark"
    /\ name = "q0"
    /\ queryString = SavedQuery

\* started as run with a file that holds a query or a mutation, the program
\* is, after a successful login, at its end with the file sent once
RunsOnce ==
    (/\ Started("run") /\ FileExists /\ PastArguments
     /\ pc \notin LoginPrompts
     /\ "query" \in SeqToSet(TheFile) \/ "mutation" \in SeqToSet(TheFile)
     /\ Len(answers) >= 1 /\ answers[1].raised = "") =>
        /\ pc \in {"done", "failed"}
        /\ menu = <<>>
        /\ session = ""
        /\ Operations(sent) = <<Operation(TheFile)>>
        /\ pc = "done" <=> answers[Len(answers)].raised = ""

\* C18: run with an existing file that holds a query or a mutation executes
\* the operation of the file once after a successful login and then ends the
\* process: no session menu and no top-level menu is shown
C18_RunOnceAndExit == []RunsOnce /\ [][pc # "done"]_vars

\* C18 witness: a mutation file without login info was run after an
\* interactive login with another host
C18_Witness ==
    /\ pc = "done"
    /\ Started("run")
    /\ TheFile = SavedMutation
    /\ config.hostname = "h1"
    /\ Len(sent) = 2

\* the command line is no load or run with the name of one file
BadCommandLine == Len(argv) > 0 /\ (Len(argv) # 2 \/ argv[1] \notin {"load", "run"})

\* C19: a first argument other than load and run, or a number of arguments
\* other than two, ends in the handler of main: the operation of the file is
\* not sent and neither a session menu nor the top-level menu is shown
C19_UsageError ==
    BadCommandLine =>
        /\ pc \notin Menus
        /\ pc # "done"
        /\ menu = <<>>
        /\ session = ""
        /\ Operations(sent) = <<>>
        /\ (PastArguments /\ pc \notin LoginPrompts) => pc = "failed"

\* C19 witness: an unknown command with a query file with login info
C19_Witness ==
    /\ Started("exec")
    /\ pc = "failed"
    /\ error = "Unknown operation"
    /\ sent = <<LoginMutation(FileToken)>>

\* C20: at a post-run menu and at the top-level menu the config file holds
\* what config holds in hostname, authToken, queries and mutations, unless
\* there is no config file and config is as loadConfig made it
C20_ConfigFlushed ==
    pc \in Menus =>
        IF disk = None THEN config = FreshConfig
        ELSE /\ disk[1].hostname = config.hostname
             /\ disk[1].authToken = config.authToken
             /\ disk[1].queries = config.queries
             /\ disk[1].mutations = config.mutations

\* C20 witness: the top-level menu after a login with another host and the
\* store of a query
C20_Witness ==
    /\ pc = "mainMenu"
    /\ config.hostname = "h1"
    /\ op = "store"
    /\ "n1" \in DOMAIN config.queries

RECURSIVE Leaf(_)
\* the named type a type of the schema wraps
Leaf(t) == IF t.ofType = None THEN t.name[1] ELSE Leaf(t.ofType[1])

\* the fields the schema gives the type called t: none if t is no object type
FieldsOf(t) == IF t \in DOMAIN TheSchema.objects THEN TheSchema.objects[t] ELSE <<>>

RECURSIVE PathType(_)
\* the type a path resolves to in the schema, None if the path is no chain of
\* fields from Query
PathType(p) ==
    IF Len(p) = 0 THEN Some("Query")
    ELSE LET t == PathType(SliceInit(p)) IN
         IF t = None THEN None
         ELSE LET fs == {f \in SeqToSet(FieldsOf(t[1])) : f.name = p[Len(p)]} IN
              IF fs = {} THEN None
              ELSE Some(Leaf((CHOOSE f \in fs : TRUE).type))

\* the parent of p is a chain of fields and the last element of p is no field
\* of the type the parent resolves to
Broken(p) == Len(p) > 0 /\ PathType(SliceInit(p)) # None /\ PathType(p) = None

\* the call with a broken path has ended in the handler of main, with no
\* request for the path and no entry for it, each ancestor requested at most
\* once in all, and with "Failed to inspect" once the ancestors are resolved
BrokenPathFails ==
    Broken(path) =>
        /\ pc = "failed"
        /\ menu = <<>>
        /\ returned = None
        /\ Join(path) \notin DOMAIN introspectionFieldsCache
        /\ Join(path) \notin DOMAIN fieldRequests
        /\ Len(sent) <= Len(path)
        /\ \A k \in DOMAIN fieldRequests : fieldRequests[k] = 1
        /\ (\A i \in 1..Len(answers) : answers[i].raised = "") =>
               /\ error = "Failed to inspect"
               /\ CachedFields(introspectionFieldsCache, Join(SliceInit(path)))

\* C21: introspectFields(p) for a non-empty p whose last element is no field of
\* the type its parent resolves to throws, sends no introspection request for
\* p, leaves no cache entry for p, and nothing is called after it: the process
\* ends in the handler of main
C21_BrokenPathFails == []BrokenPathFails /\ [][pc = "resolve"]_vars

\* C21 witness: the parent of the path is a scalar field, resolved to no fields
\* by the failing call itself, the root resolved by a call before
C21_Witness ==
    /\ pc = "failed"
    /\ error = "Failed to inspect"
    /\ path = <<"me", "id", "friend">>
    /\ Len(sent) = 2
    /\ introspectionFieldsCache[Join(<<"me", "id">>)].fields = Some(<<>>)

RECURSIVE Unjoin(_)
\* the path a key was joined from
Unjoin(key) ==
    IF Len(key) = 0 THEN <<>>
    ELSE IF Len(key) = 1 THEN <<key[1]>>
    ELSE <<key[1]>> \o Unjoin(SubSeq(key, 3, Len(key)))

\* the paths that have an entry
CachedPaths == {Unjoin(key) : key \in DOMAIN introspectionFieldsCache}

\* C24: in the fields cache every entry is that of a path, its type is Query
\* for the root and else the named type the schema gives the last field of the
\* path in the type of its parent, under all list and non-null wrappers; and
\* when the fields of an entry are populated, so are those of every proper
\* prefix of its path, and every path that extends it by one of those fields
\* has an entry with a type
C24_CacheConsistent ==
    /\ DOMAIN introspectionFieldsCache = {Join(p) : p \in CachedPaths}
    /\ \A p \in CachedPaths :
        LET entry == introspectionFieldsCache[Join(p)] IN
        /\ entry.type = IF Len(p) = 0 THEN "Query"
                        ELSE LET parent == PathType(SliceInit(p))[1]
                                 f == CHOOSE f \in SeqToSet(FieldsOf(parent)) :
                                          f.name = p[Len(p)]
                             IN  Leaf(f.type)
        /\ entry.fields # None =>
               /\ \A n \in 0..(Len(p) - 1) :
                      CachedFields(introspectionFieldsCache, Join(SubSeq(p, 1, n)))
               /\ \A i \in 1..Len(entry.fields[1]) :
                      LET child == Join(Append(p, entry.fields[1][i])) IN
                      /\ child \in DOMAIN introspectionFieldsCache
                      /\ introspectionFieldsCache[child].type
                             \in DOMAIN TheSchema.objects \cup TheSchema.scalars

\* C24 witness: a path of three fields is resolved, through a type that is a
\* field of itself behind three wrappers, and its sibling has a type only
C24_Witness ==
    /\ CachedFields(introspectionFieldsCache, Join(<<"me", "friend", "id">>))
    /\ Join(<<"me", "friend", "friend">>) \in DOMAIN introspectionFieldsCache
    /\ introspectionFieldsCache[Join(<<"me", "friend", "friend">>)]
           = [fields |-> None, type |-> "User"]

\* the post-run menus offer exit
ExitOffered == pc \in {"postQuery", "postMutation"} => "exit" \in SeqToSet(menu)

\* the step that answers a post-run menu with exit shows the top-level menu,
\* with no request sent and nothing written to the config file or to a file
ExitUnwinds ==
    (pc \in {"postQuery", "postMutation"} /\ op' = "exit") =>
        /\ pc' = "mainMenu"
        /\ menu' = MainChoices
        /\ sent' = <<>>
        /\ answers' = <<>>
        /\ disk' = disk
        /\ config' = config
        /\ written' = <<>>
        /\ error' = error

\* C22: exit at the post-run menu of a query or mutation session, however the
\* session was reached (through rerun, edit, benchmark, new query or new
\* mutation, from the top-level menu or from the load command), makes the
\* top-level menu the next prompt, with no request and no config write before it
C22_ExitUnwinds == []ExitOffered /\ [][ExitUnwinds]_vars

\* C22 witness: the top-level menu after exit from a query session whose name
\* is that of the file given to load (no query was stored under it) and whose
\* operation came out of an edit
C22_Witness ==
    /\ pc = "mainMenu"
    /\ op = "exit"
    /\ session = "query"
    /\ name = "n1"
    /\ "n1" \notin DOMAIN config.queries
    /\ queryString \in EditedTexts
    /\ sent = <<>>

\* C23: the operation in hand carries a line #authToken: T, which is so only
\* for the content of a file given to load, whose session starts after the
\* login with T succeeded; store to file answered with yes then writes a file
\* that starts with the line #authToken: T
C23_TokenRoundTrip ==
    (pc = "mainMenu" /\ op = "store to file" /\ AuthTokenMatch(queryString) # None) =>
        \A f \in DOMAIN written :
            written[f] # queryString =>
                LET line == AuthTokenLine(AuthTokenMatch(queryString)[1])
                IN  SubSeq(written[f], 1, Len(line)) = line

====
